---- MODULE Spec2Model ----
\* secret-sync: a run reads the secrets of a source system that belong to the
\* sync environment (GetSourceSecrets) and reconciles the destination Vault
\* with them (UpdateDestinationSecrets -> Vault.UpdateSecrets).
\*
\* Representation.
\*  - A name is the sequence of its dash-separated segments: "db-dev" is
\*    <<"db", "dev">>.  strings.Split(name, "-") is then the name itself, and
\*    strings.TrimSuffix(name, "-" \o e) drops the last segment when it is e
\*    and is not the only one.
\*  - A *Environment is the name of the environment it points to, or NilEnv.
\*  - A Go value held in a map[string]interface{} is [t |-> type, v |-> value].
\*  - A stored (JSON) value is [j |-> "num" | "str", v |-> value].
EXTENDS Integers, Sequences, FiniteSets, TLC

\* ------------------------------------------------------------------ bounds
MaxSrc  == 2        \* secrets in the source system
MaxDst  == 1        \* secrets in the destination before the first run
MaxFail == 1        \* refused requests among those one step issues
MaxList == 2        \* secrets handed to FilterByTags
MaxCalls == 2       \* GetSecrets calls made on one Vault adapter

\* ------------------------------------------------- pkg/secret: environments
DevEnv     == [Name |-> "dev",     Production |-> FALSE, IsGroup |-> FALSE]
TestEnv    == [Name |-> "test",    Production |-> FALSE, IsGroup |-> FALSE]
StagingEnv == [Name |-> "staging", Production |-> FALSE, IsGroup |-> FALSE]
ProdEnv    == [Name |-> "prod",    Production |-> TRUE,  IsGroup |-> FALSE]
NonprodEnv == [Name |-> "nonprod", Production |-> FALSE, IsGroup |-> TRUE]
GlobalEnv  == [Name |-> "global",  Production |-> TRUE,  IsGroup |-> TRUE]

NilEnv   == "nil"
EnvNames == {"dev", "test", "staging", "prod", "nonprod", "global"}
EnvPtrs  == EnvNames \cup {NilEnv}

\* *env for a non-nil pointer
Deref(p) ==
    CASE p = "dev"     -> DevEnv
      [] p = "test"    -> TestEnv
      [] p = "staging" -> StagingEnv
      [] p = "prod"    -> ProdEnv
      [] p = "nonprod" -> NonprodEnv
      [] p = "global"  -> GlobalEnv

GetEnvFromString(env) ==
    CASE env = DevEnv.Name     -> "dev"
      [] env = TestEnv.Name    -> "test"
      [] env = StagingEnv.Name -> "staging"
      [] env = ProdEnv.Name    -> "prod"
      [] env = GlobalEnv.Name  -> "global"
      [] env = NonprodEnv.Name -> "nonprod"
      [] OTHER                 -> NilEnv

\* ------------------------------------------------------ Go and JSON values
Str(s)     == [t |-> "string",  v |-> s]
Float64(n) == [t |-> "float64", v |-> n]
Number(n)  == [t |-> "Number",  v |-> n]
Bool(b)    == [t |-> "bool",    v |-> b]

NoTags == [k \in {} |-> Str("")]

\* fmt.Sprintf("%v", val)
Sprintf(val) ==
    CASE val.t = "string" -> val.v
      [] val.t = "bool"   -> IF val.v THEN "true" ELSE "false"
      [] OTHER            -> ToString(val.v)

\* json.Marshal of one value
Marshal(val) ==
    CASE val.t = "string" -> [j |-> "str",  v |-> val.v]
      [] val.t = "bool"   -> [j |-> "bool", v |-> val.v]
      [] OTHER            -> [j |-> "num",  v |-> val.v]

\* json.Unmarshal into interface{}: every number becomes a float64
Unmarshal(js) ==
    CASE js.j = "str"  -> Str(js.v)
      [] js.j = "bool" -> Bool(js.v)
      [] OTHER         -> Float64(js.v)

\* the Vault client decodes a response with UseNumber: numbers are json.Number
UnmarshalUseNumber(js) ==
    CASE js.j = "str"  -> Str(js.v)
      [] js.j = "bool" -> Bool(js.v)
      [] OTHER         -> Number(js.v)

MarshalMap(m)            == [k \in DOMAIN m |-> Marshal(m[k])]
UnmarshalMap(m)          == [k \in DOMAIN m |-> Unmarshal(m[k])]
UnmarshalUseNumberMap(m) == [k \in DOMAIN m |-> UnmarshalUseNumber(m[k])]

DeepEqual(m1, m2) ==
    IF m1 = m2
    THEN TRUE
    ELSE UnmarshalMap(MarshalMap(m1)) = UnmarshalMap(MarshalMap(m2))

\* ----------------------------------------------------- pkg/secret: Secret
New(name) == [Name |-> name, Data |-> NoTags, Environment |-> NilEnv, Tags |-> NoTags]

AddData(s, data) ==
    [s EXCEPT !.Data = [k \in DOMAIN s.Data \cup DOMAIN data |->
                           IF k \in DOMAIN data THEN data[k] ELSE s.Data[k]]]

AddTags(s, tags) ==
    [s EXCEPT !.Tags = [k \in DOMAIN s.Tags \cup DOMAIN tags |->
                           IF k \in DOMAIN tags THEN tags[k] ELSE s.Tags[k]]]

BelongsToEnv_OneWay(s, env) ==
    IF env = NilEnv \/ s.Environment = NilEnv
    THEN FALSE
    ELSE LET secretEnv == Deref(s.Environment)
             systemEnv == Deref(env)
         IN  IF secretEnv = systemEnv THEN TRUE
             ELSE IF secretEnv = GlobalEnv \/ systemEnv = GlobalEnv THEN TRUE
             ELSE IF ~secretEnv.Production /\ systemEnv = NonprodEnv THEN TRUE
             ELSE FALSE

BelongsToEnv(s, env) ==
    IF env = NilEnv \/ s.Environment = NilEnv
    THEN FALSE
    ELSE LET secretEnv == Deref(s.Environment)
             systemEnv == Deref(env)
         IN  IF secretEnv = systemEnv THEN TRUE
             ELSE IF secretEnv = GlobalEnv \/ systemEnv = GlobalEnv THEN TRUE
             ELSE IF \/ (~secretEnv.Production /\ systemEnv = NonprodEnv)
                     \/ (secretEnv = NonprodEnv /\ ~systemEnv.Production) THEN TRUE
             ELSE FALSE

\* s.Tags[key] != nil: the key is present (no stored tag holds a nil value)
ContainsTag(s, key) == key \in DOMAIN s.Tags

EqualData(s, o) == DeepEqual(s.Data, o.Data)
EqualName(s, o) == s.Name = o.Name
EqualTags(s, o) == DeepEqual(s.Tags, o.Tags)

GetTagValue(s, key) == IF ContainsTag(s, key) THEN Sprintf(s.Tags[key]) ELSE ""

GetEnvFromName(s) ==
    LET nameSplit == s.Name
        env == IF Len(nameSplit) > 1 THEN nameSplit[Len(nameSplit)] ELSE ""
    IN  GetEnvFromString(env)

GetEnvFromTags(s) == GetEnvFromString(GetTagValue(s, "Environment"))

GetEnv_TagsFirst(s) ==
    IF s.Environment # NilEnv THEN s.Environment
    ELSE IF GetEnvFromTags(s) # NilEnv THEN GetEnvFromTags(s)
    ELSE IF GetEnvFromName(s) # NilEnv THEN GetEnvFromName(s)
    ELSE NilEnv

GetEnv(s) ==
    IF s.Environment # NilEnv THEN s.Environment
    ELSE IF GetEnvFromName(s) # NilEnv THEN GetEnvFromName(s)
    ELSE IF GetEnvFromTags(s) # NilEnv THEN GetEnvFromTags(s)
    ELSE NilEnv

SetEnv(s) == [s EXCEPT !.Environment = GetEnv(s)]

\* strings.TrimSuffix(s.Name, suffix) for suffix = "-" \o e, e without a dash
TrimNameSuffix(s, e) ==
    IF Len(s.Name) > 1 /\ s.Name[Len(s.Name)] = e
    THEN [s EXCEPT !.Name = SubSeq(s.Name, 1, Len(s.Name) - 1)]
    ELSE s

TrimNameEnv_Never(s) == s

TrimNameEnv(s) ==
    IF GetEnvFromName(s) # NilEnv
    THEN TrimNameSuffix(s, Deref(GetEnvFromName(s)).Name)
    ELSE s

\* a == b for two non-nil interface{} values: same dynamic type, same value
InterfaceEq(a, b) == a.t = b.t /\ a.v = b.v

\* s.Tags[key] == val for a non-nil val: a missing key reads as nil
ContainsTagWithValue_KeyOnly(s, key, val) == key \in DOMAIN s.Tags

ContainsTagWithValue(s, key, val) ==
    IF key \in DOMAIN s.Tags THEN InterfaceEq(s.Tags[key], val) ELSE FALSE

\* the loop over secrets of FilterByTags
RECURSIVE FilterLoop(_, _)
FilterLoop(secrets, tags) ==
    IF secrets = << >> THEN << >>
    ELSE LET secret      == Head(secrets)
             containsTag == \A key \in DOMAIN tags :
                                ContainsTagWithValue(secret, key, tags[key])
         IN  (IF containsTag THEN << secret >> ELSE << >>)
             \o FilterLoop(Tail(secrets), tags)

\* FilterByTags: the pair it returns
FilterByTags(secrets, tags) ==
    IF Cardinality(DOMAIN tags) > 0
    THEN << TRUE, FilterLoop(secrets, tags) >>
    ELSE << FALSE, secrets >>

\* ---------------------------------------------------------------- stores
\* What a secrets system holds for one key: the JSON data of the current
\* version (live = FALSE: metadata only, no version to read) and the tags
\* (AWS tags, Vault custom metadata).
Num(n) == [j |-> "num", v |-> n]
JStr(s) == [j |-> "str", v |-> s]

\* every name a store can hold, in the order a listing returns them; all keys
\* are at the top level of the secrets engine (no directory to descend into)
AllNames == << <<"db">>, <<"db", "dev">>, <<"db", "dev", "dev">>, <<"db", "prod">> >>
SrcNames == {AllNames[i] : i \in 1..Len(AllNames)}
DstNames == {<<"db">>, <<"db", "dev">>}
DataVals == {[x |-> Num(1)], [x |-> Num(2)]}
TagVals  == {NoTags, [Environment |-> JStr("dev")]}

Entries(names) == [Name : names, Data : DataVals, Tags : TagVals, live : {TRUE}]

UniqueNames(store) == \A a, b \in store : a.Name = b.Name => a = b

Stores(names, max) ==
    {st \in SUBSET Entries(names) : Cardinality(st) <= max /\ UniqueNames(st)}

RECURSIVE ListFrom(_, _)
ListFrom(store, i) ==
    IF i > Len(AllNames) THEN << >>
    ELSE LET here == {e \in store : e.Name = AllNames[i]}
         IN  (IF here = {} THEN << >> ELSE << CHOOSE e \in here : TRUE >>)
             \o ListFrom(store, i + 1)

\* the entries of a store in listing order
List(store) == ListFrom(store, 1)

\* The program only compares data values with each other (helper.DeepEqual on
\* their JSON), so two sources that differ by exchanging the two values of
\* DataVals behave alike; of each such pair, the source whose first listed
\* secret holds the value 1.
UpToValues(stores) ==
    {st \in stores : st = {} \/ List(st)[1].Data = [x |-> Num(1)]}

\* KVv2.Put: a new version of the data; creates the key when missing
PutData(store, name, data) ==
    IF \E e \in store : e.Name = name
    THEN {IF e.Name = name THEN [e EXCEPT !.Data = MarshalMap(data), !.live = TRUE] ELSE e
            : e \in store}
    ELSE store \cup {[Name |-> name, Data |-> MarshalMap(data), Tags |-> NoTags, live |-> TRUE]}

\* KVv2.PutMetadata: replaces the custom metadata; creates the key when missing
PutMetadata(store, name, tags) ==
    IF \E e \in store : e.Name = name
    THEN {IF e.Name = name THEN [e EXCEPT !.Tags = MarshalMap(tags)] ELSE e : e \in store}
    ELSE store \cup {[Name |-> name, Data |-> NoTags, Tags |-> MarshalMap(tags), live |-> FALSE]}

\* KVv2.DeleteMetadata: removes the key with all its versions
DeleteMetadata(store, name) == {e \in store : e.Name # name}

SystemAws   == "aws"
SystemVault == "vault"

\* -------------------------------------------------------------- the state
VARIABLES
    srcStore,    \* content of the source system
    dstStore,    \* content of the destination Vault
    SyncEnv,     \* main.SyncEnv, from ENVIRONMENT
    system,      \* the source system, from SOURCE_SYSTEM
    pc,          \* position of the current run
    newSecrets,  \* what GetSourceSecrets returned
    newOrigin,   \* for each element of newSecrets, the name it is stored under
    vSecrets,    \* Secrets of the destination Vault adapter
    vOrigin,     \* for each element of vSecrets, the name it is stored under
    ops,         \* writes and deletes this run has issued to the destination
    faults,      \* backend failures met by this run
    dstBefore,   \* content of the destination when this run started
    prevClean,   \* the previous run completed and met no backend failure
    logged,      \* what this run logged about its requests: the requests followed
                 \* by a "Succesfully put ..." line, the counts of the summaries
    probe,       \* a Secret handed to a method of pkg/secret
    probeIn,     \* that Secret before the call
    probeEnv,    \* the env argument of the call
    probeRes,    \* the boolean the call returned
    probeOp,     \* the method called
    filterSecrets, \* the secrets handed to FilterByTags
    filterTags,  \* the tags handed to FilterByTags
    filterOut,   \* the list FilterByTags returned
    calls        \* the env arguments of the GetSecrets calls made on one Vault adapter

runVars   == <<srcStore, dstStore, SyncEnv, system, pc, newSecrets, newOrigin,
               vSecrets, vOrigin, ops, faults, dstBefore, prevClean, logged>>
probeVars == <<probe, probeIn, probeEnv, probeRes, probeOp,
               filterSecrets, filterTags, filterOut, calls>>
vars      == <<srcStore, dstStore, SyncEnv, system, pc, newSecrets, newOrigin,
               vSecrets, vOrigin, ops, faults, dstBefore, prevClean, logged,
               probe, probeIn, probeEnv, probeRes, probeOp,
               filterSecrets, filterTags, filterOut, calls>>

\* ------------------------------------------------ reading a secrets system
\* Vault.getSecret on a readable key: secret.New, then AddData and AddTags of
\* what KVv2.Get decoded
VaultGetSecret(e) ==
    AddTags(AddData(New(e.Name), UnmarshalUseNumberMap(e.Data)),
            UnmarshalUseNumberMap(e.Tags))

\* SecretsManager.GetSecrets, the part that builds the Secret of a list entry
\* whose value could be read: tags copied as strings, SecretString unmarshalled
AwsGetSecret(e) ==
    LET s == New(e.Name)
    IN  [s EXCEPT !.Tags = [k \in DOMAIN e.Tags |-> Str(e.Tags[k].v)],
                  !.Data = UnmarshalMap(e.Data)]

\* the body of the loop of GetSecrets for one fetched secret: the secrets it
\* appends to the result (none or one), each with the name it was stored under
KeepIfBelongs_KeepAll(s0, env) ==
    LET s == SetEnv(s0)
    IN  << [origin |-> s0.Name,
            secret |-> IF ~Deref(env).IsGroup THEN TrimNameEnv(s) ELSE s] >>

KeepIfBelongs(s0, env) ==
    LET s == SetEnv(s0)
    IN  IF BelongsToEnv(s, env)
        THEN << [origin |-> s0.Name,
                 secret |-> IF ~Deref(env).IsGroup THEN TrimNameEnv(s) ELSE s] >>
        ELSE << >>

RECURSIVE GetSecretsLoop(_, _, _)
GetSecretsLoop(kind, entries, env) ==
    IF entries = << >> THEN << >>
    ELSE KeepIfBelongs(IF kind = SystemAws THEN AwsGetSecret(Head(entries))
                                       ELSE VaultGetSecret(Head(entries)),
                       env)
         \o GetSecretsLoop(kind, Tail(entries), env)

\* The secrets GetSecrets(env) collects when every read succeeds; a nil env
\* stands for GlobalEnv.  Vault.GetSecrets appends them to v.Secrets and
\* returns v.Secrets; the adapter of the source is new (vault.New) and called
\* once, so what it returns is this list.
GetSecrets(kind, entries, env) ==
    GetSecretsLoop(kind, entries, IF env = NilEnv THEN "global" ELSE env)

SecretsOf(found) == [i \in DOMAIN found |-> found[i].secret]
OriginsOf(found) == [i \in DOMAIN found |-> found[i].origin]

\* what the pages of SecretsManager.ListSecrets add up to: the whole list, or,
\* when a page fails with a code that is only logged, the pages before it
AwsListings(store) ==
    LET all  == List(store)
        last == IF Len(all) = 0 THEN 0 ELSE Len(all) - 1
    IN  {[list |-> all, failed |-> FALSE]}
        \cup {[list |-> SubSeq(all, 1, k), failed |-> TRUE] : k \in 0..last}

\* --------------------------------------------------- Vault.UpdateSecrets
MinOf(S) == CHOOSE j \in S : \A k \in S : j <= k

\* the writes UpdateChangedSecrets issues for newSecrets[i]
ChangedOps_TagsFollowData(new, cur, i) ==
    LET matches    == {j \in DOMAIN cur : EqualName(new[i], cur[j])}
        updateData == IF matches = {} THEN TRUE
                      ELSE ~EqualData(new[i], cur[MinOf(matches)])
        updateTags == updateData
    IN  (IF updateData THEN << [op |-> "data", i |-> i, name |-> new[i].Name] >> ELSE << >>)
        \o (IF updateTags THEN << [op |-> "tags", i |-> i, name |-> new[i].Name] >> ELSE << >>)

ChangedOps_NoTagsOnCreate(new, cur, i) ==
    LET matches    == {j \in DOMAIN cur : EqualName(new[i], cur[j])}
        updateData == IF matches = {} THEN TRUE
                      ELSE ~EqualData(new[i], cur[MinOf(matches)])
        updateTags == IF matches = {} THEN FALSE
                      ELSE ~EqualTags(new[i], cur[MinOf(matches)])
    IN  (IF updateData THEN << [op |-> "data", i |-> i, name |-> new[i].Name] >> ELSE << >>)
        \o (IF updateTags THEN << [op |-> "tags", i |-> i, name |-> new[i].Name] >> ELSE << >>)

ChangedOps(new, cur, i) ==
    LET matches    == {j \in DOMAIN cur : EqualName(new[i], cur[j])}
        updateData == IF matches = {} THEN TRUE
                      ELSE ~EqualData(new[i], cur[MinOf(matches)])
        updateTags == IF matches = {} THEN TRUE
                      ELSE ~EqualTags(new[i], cur[MinOf(matches)])
    IN  (IF updateData THEN << [op |-> "data", i |-> i, name |-> new[i].Name] >> ELSE << >>)
        \o (IF updateTags THEN << [op |-> "tags", i |-> i, name |-> new[i].Name] >> ELSE << >>)

RECURSIVE ChangedPlan(_, _, _)
ChangedPlan(new, cur, i) ==
    IF i > Len(new) THEN << >>
    ELSE ChangedOps(new, cur, i) \o ChangedPlan(new, cur, i + 1)

\* the deletes CleanRemovedSecrets issues
RECURSIVE RemovedPlan_FullEqual(_, _, _)
RemovedPlan_FullEqual(new, cur, j) ==
    IF j > Len(cur) THEN << >>
    ELSE (IF \E i \in DOMAIN new : /\ EqualName(cur[j], new[i])
                                   /\ EqualData(cur[j], new[i])
                                   /\ EqualTags(cur[j], new[i])
          THEN << >>
          ELSE << [op |-> "delete", i |-> j, name |-> cur[j].Name] >>)
         \o RemovedPlan_FullEqual(new, cur, j + 1)

RECURSIVE RemovedPlan(_, _, _)
RemovedPlan(new, cur, j) ==
    IF j > Len(cur) THEN << >>
    ELSE (IF \E i \in DOMAIN new : EqualName(cur[j], new[i])
          THEN << >>
          ELSE << [op |-> "delete", i |-> j, name |-> cur[j].Name] >>)
         \o RemovedPlan(new, cur, j + 1)

\* the destination after the requests plan[k..], those in fails being refused
RECURSIVE Apply(_, _, _, _, _)
Apply(store, plan, fails, new, k) ==
    IF k > Len(plan) THEN store
    ELSE LET o  == plan[k]
             st == IF k \in fails THEN store
                   ELSE CASE o.op = "data"   -> PutData(store, o.name, new[o.i].Data)
                          [] o.op = "tags"   -> PutMetadata(store, o.name, new[o.i].Tags)
                          [] o.op = "delete" -> DeleteMetadata(store, o.name)
         IN  Apply(st, plan, fails, new, k + 1)

Issued_StopAtFailure(plan, fails) ==
    LET stop == IF fails = {} THEN Len(plan) ELSE MinOf(fails)
    IN  [k \in 1..stop |->
            [op |-> plan[k].op, i |-> plan[k].i, name |-> plan[k].name, ok |-> k \notin fails]]

Issued(plan, fails) ==
    [k \in DOMAIN plan |->
        [op |-> plan[k].op, i |-> plan[k].i, name |-> plan[k].name, ok |-> k \notin fails]]

\* ------------------------------------------------------------------ Init
NothingLogged == [put |-> {}, updated |-> 0, removed |-> 0]

NoSecret == New(<< "" >>)

FilterIdle ==
    /\ filterSecrets = << >>
    /\ filterTags = NoTags
    /\ filterOut = << >>
    /\ calls = << >>

ProbeIdle ==
    /\ probe = NoSecret
    /\ probeIn = NoSecret
    /\ probeEnv = NilEnv
    /\ probeRes = FALSE
    /\ probeOp = "none"
    /\ FilterIdle

Init ==
    /\ srcStore \in UpToValues(Stores(SrcNames, MaxSrc))
    /\ dstStore \in Stores(DstNames, MaxDst)
    /\ SyncEnv \in EnvNames
    /\ system \in {SystemAws, SystemVault}
    /\ pc = "main"
    /\ newSecrets = << >>
    /\ newOrigin = << >>
    /\ vSecrets = << >>
    /\ vOrigin = << >>
    /\ ops = << >>
    /\ faults = {}
    /\ dstBefore = dstStore
    /\ prevClean = FALSE
    /\ logged = NothingLogged
    /\ ProbeIdle

\* --------------------------------------------------------------- actions
\* log.Fatal: the process exits
Fatal(fault) ==
    /\ pc' = "exit"
    /\ faults' = faults \cup {fault}

\* a nil pointer is dereferenced: the process panics
Panic(fault) ==
    /\ pc' = "panic"
    /\ faults' = faults \cup {fault}

\* main.GetSourceSecrets with SOURCE_SYSTEM=vault: vault.New, v.GetSecrets(&SyncEnv)
GetSourceSecretsVault ==
    /\ pc = "main"
    /\ system = SystemVault
    /\ \/ \* getSecretKeys: List fails
          /\ Fatal("srcList")
          /\ UNCHANGED <<newSecrets, newOrigin>>
       \/ \* getSecret: Get fails, vs is nil, vs.Data
          /\ srcStore # {}
          /\ Panic("srcRead")
          /\ UNCHANGED <<newSecrets, newOrigin>>
       \/ LET found == GetSecrets(SystemVault, List(srcStore), SyncEnv)
          IN  /\ \A e \in srcStore : e.live
              /\ newSecrets' = SecretsOf(found)
              /\ newOrigin' = OriginsOf(found)
              /\ pc' = "source_done"
              /\ UNCHANGED faults
    /\ UNCHANGED <<srcStore, dstStore, SyncEnv, system, vSecrets, vOrigin, ops,
                   dstBefore, prevClean, logged>>
    /\ UNCHANGED probeVars

\* main.GetSourceSecrets with SOURCE_SYSTEM=aws: aws.New, a.GetSecrets(&SyncEnv)
GetSourceSecretsAws ==
    /\ pc = "main"
    /\ system = SystemAws
    /\ \/ \* ListSecrets: an error with a code of the default branch, or no awserr
          /\ Fatal("srcList")
          /\ UNCHANGED <<newSecrets, newOrigin>>
       \/ \E l \in AwsListings(srcStore) :
            \/ \* getSecretValue returns nil, .SecretString
               /\ l.list # << >>
               /\ pc' = "panic"
               /\ faults' = faults \cup (IF l.failed THEN {"srcList", "srcRead"}
                                                     ELSE {"srcRead"})
               /\ UNCHANGED <<newSecrets, newOrigin>>
            \/ LET found == GetSecrets(SystemAws, l.list, SyncEnv)
               IN  /\ newSecrets' = SecretsOf(found)
                   /\ newOrigin' = OriginsOf(found)
                   /\ pc' = "source_done"
                   /\ faults' = faults \cup (IF l.failed THEN {"srcList"} ELSE {})
    /\ UNCHANGED <<srcStore, dstStore, SyncEnv, system, vSecrets, vOrigin, ops,
                   dstBefore, prevClean, logged>>
    /\ UNCHANGED probeVars

\* the calls of Vault.UpdateSecrets, in the order of its body, and the
\* position of the run before the first and after each of them
UpdateSecretsBody_CleanFirst == << "GetSecrets", "CleanRemovedSecrets", "UpdateChangedSecrets" >>

UpdateSecretsBody == << "GetSecrets", "UpdateChangedSecrets", "CleanRemovedSecrets" >>

Positions == << "source_done", "dest_listed", "updated", "done" >>

Before(call) == Positions[CHOOSE k \in DOMAIN UpdateSecretsBody : UpdateSecretsBody[k] = call]
After(call)  == Positions[(CHOOSE k \in DOMAIN UpdateSecretsBody : UpdateSecretsBody[k] = call) + 1]

\* Vault.UpdateSecrets, line 225: v.GetSecrets(nil) on the destination
GetDestinationSecrets ==
    /\ pc = Before("GetSecrets")
    /\ \/ /\ Fatal("dstList")
          /\ UNCHANGED <<vSecrets, vOrigin>>
       \/ \* Get fails, or finds no version of the key: vs is nil, vs.Data
          /\ dstStore # {}
          /\ Panic("dstRead")
          /\ UNCHANGED <<vSecrets, vOrigin>>
       \/ LET found == GetSecrets(SystemVault, List(dstStore), NilEnv)
          IN  /\ \A e \in dstStore : e.live
              /\ vSecrets' = vSecrets \o SecretsOf(found)
              /\ vOrigin' = vOrigin \o OriginsOf(found)
              /\ pc' = After("GetSecrets")
              /\ UNCHANGED faults
    /\ UNCHANGED <<srcStore, dstStore, SyncEnv, system, newSecrets, newOrigin, ops,
                   dstBefore, prevClean, logged>>
    /\ UNCHANGED probeVars

\* the requests of one step reach the destination, fails of them being refused
Request(plan, fails) ==
    /\ Cardinality(fails) <= MaxFail
    /\ dstStore' = Apply(dstStore, plan, fails, newSecrets, 1)
    /\ ops' = ops \o Issued(plan, fails)
    /\ faults' = faults \cup (IF fails = {} THEN {} ELSE {"write"})

\* Vault.UpdateChangedSecrets(newSecrets): putSecretData and putSecretMetadata
\* log "Succesfully put ..." after every request, refused or not, and
\* updatedSecrets counts every secret that had a request
UpdateChangedSecrets ==
    /\ pc = Before("UpdateChangedSecrets")
    /\ LET plan == ChangedPlan(newSecrets, vSecrets, 1)
       IN  /\ \E fails \in SUBSET (DOMAIN plan) : Request(plan, fails)
           /\ logged' = [logged EXCEPT
                           !.put = @ \cup {Len(ops) + k : k \in DOMAIN plan},
                           !.updated = Cardinality({plan[k].i : k \in DOMAIN plan})]
    /\ pc' = After("UpdateChangedSecrets")
    /\ UNCHANGED <<srcStore, SyncEnv, system, newSecrets, newOrigin, vSecrets, vOrigin,
                   dstBefore, prevClean>>
    /\ UNCHANGED probeVars

\* Vault.CleanRemovedSecrets(newSecrets): what DeleteMetadata returns is
\* dropped and removedSecrets counts every delete
CleanRemovedSecrets ==
    /\ pc = Before("CleanRemovedSecrets")
    /\ LET plan == RemovedPlan(newSecrets, vSecrets, 1)
       IN  /\ \E fails \in SUBSET (DOMAIN plan) : Request(plan, fails)
           /\ logged' = [logged EXCEPT !.removed = Len(plan)]
    /\ pc' = After("CleanRemovedSecrets")
    /\ UNCHANGED <<srcStore, SyncEnv, system, newSecrets, newOrigin, vSecrets, vOrigin,
                   dstBefore, prevClean>>
    /\ UNCHANGED probeVars

\* the program is started again: a new process, new adapters
NextRun ==
    /\ pc \in {"done", "exit", "panic"}
    /\ pc' = "main"
    /\ newSecrets' = << >>
    /\ newOrigin' = << >>
    /\ vSecrets' = << >>
    /\ vOrigin' = << >>
    /\ ops' = << >>
    /\ faults' = {}
    /\ dstBefore' = dstStore
    /\ prevClean' = (pc = "done" /\ faults = {})
    /\ logged' = NothingLogged
    /\ UNCHANGED <<srcStore, dstStore, SyncEnv, system>>
    /\ UNCHANGED probeVars

Next ==
    \/ GetSourceSecretsVault
    \/ GetSourceSecretsAws
    \/ GetDestinationSecrets
    \/ UpdateChangedSecrets
    \/ CleanRemovedSecrets
    \/ NextRun

Spec == Init /\ [][Next]_vars

\* ------------------------------------------- calls of pkg/secret's methods
ProbeNames == { <<"db">>, <<"dev">>, <<"db", "prod">>, <<"db", "dev", "dev">>, <<"db", "x">> }
ProbeTags  == { NoTags,
                [Environment |-> Str("staging")],
                [Environment |-> Str("x")],
                [Environment |-> Number(1)] }
ProbeSecrets == [Name : ProbeNames, Data : {NoTags}, Environment : EnvPtrs, Tags : ProbeTags]

RunIdle ==
    /\ srcStore = {}
    /\ dstStore = {}
    /\ SyncEnv = "global"
    /\ system = SystemVault
    /\ pc = "idle"
    /\ newSecrets = << >>
    /\ newOrigin = << >>
    /\ vSecrets = << >>
    /\ vOrigin = << >>
    /\ ops = << >>
    /\ faults = {}
    /\ dstBefore = {}
    /\ prevClean = FALSE
    /\ logged = NothingLogged

InitPure ==
    /\ RunIdle
    /\ probeIn \in ProbeSecrets
    /\ probe = probeIn
    /\ probeEnv \in EnvPtrs
    /\ probeRes = FALSE
    /\ probeOp = "New"
    /\ FilterIdle

\* s.SetEnv()
CallSetEnv ==
    /\ probeOp = "New"
    /\ probe' = SetEnv(probe)
    /\ probeOp' = "SetEnv"
    /\ UNCHANGED <<probeIn, probeEnv, probeRes, filterSecrets, filterTags, filterOut, calls>>
    /\ UNCHANGED runVars

\* s.BelongsToEnv(env)
CallBelongsToEnv ==
    /\ probeOp \in {"New", "SetEnv"}
    /\ probeRes' = BelongsToEnv(probe, probeEnv)
    /\ probeOp' = "BelongsToEnv"
    /\ UNCHANGED <<probe, probeIn, probeEnv, filterSecrets, filterTags, filterOut, calls>>
    /\ UNCHANGED runVars

\* s.TrimNameEnv()
CallTrimNameEnv ==
    /\ probeOp \in {"New", "SetEnv"}
    /\ probe' = TrimNameEnv(probe)
    /\ probeOp' = "TrimNameEnv"
    /\ UNCHANGED <<probeIn, probeEnv, probeRes, filterSecrets, filterTags, filterOut, calls>>
    /\ UNCHANGED runVars

NextPure ==
    \/ CallSetEnv
    \/ CallBelongsToEnv
    \/ CallTrimNameEnv

SpecPure == InitPure /\ [][NextPure]_vars

\* ================================================================ claims
DataWritten(i) == \E k \in DOMAIN ops : ops[k].op = "data" /\ ops[k].i = i
                                        /\ ops[k].name = newSecrets[i].Name
TagsWritten(i) == \E k \in DOMAIN ops : ops[k].op = "tags" /\ ops[k].i = i
                                        /\ ops[k].name = newSecrets[i].Name

\* C1: a complete run that follows a complete run, neither meeting a backend
\* failure and the source being the same, issues no data write, no tag write
\* and no delete against the destination.
C1_Idempotent ==
    (prevClean /\ faults = {}) => ops = << >>

\* C2: after UpdateSecrets(desired) completed with no backend failure, the
\* destination holds every desired secret under its name with the desired data
\* and tags, and every secret that was there before the run and has no
\* same-named desired secret is gone.  (Stated for desired lists whose names
\* are pairwise distinct.)
C2_Converged ==
    (/\ pc = "done"
     /\ faults = {}
     /\ \A i, j \in DOMAIN newSecrets : newSecrets[i].Name = newSecrets[j].Name => i = j)
    => /\ \A i \in DOMAIN newSecrets :
            \E e \in dstStore : /\ e.Name = newSecrets[i].Name
                                /\ e.live
                                /\ e.Data = MarshalMap(newSecrets[i].Data)
                                /\ e.Tags = MarshalMap(newSecrets[i].Tags)
       /\ \A b \in dstBefore :
            (\A i \in DOMAIN newSecrets : newSecrets[i].Name # b.Name)
            => (\A e \in dstStore : e.Name # b.Name)

\* C3: when listing the source's keys fails, on the first or on a later page,
\* no create, update or delete reaches the destination in that run.
C3_ListingErrorFatal ==
    "srcList" \in faults => ops = << >>

\* C4: when reading one listed secret fails, GetSecrets goes on: the run is
\* not aborted by it.
C4_ReadFailureRecovered ==
    (faults \cap {"srcRead", "dstRead"} # {}) => pc # "panic"

\* C5: BelongsToEnv returns the result of the ordered rules: false if either
\* environment is absent; true if both are the same; true if either is global;
\* true if one is nonprod and the other is not production; false otherwise.
\* It is reflexive on the six environments, symmetric, true for dev, test and
\* staging against nonprod both ways, false for prod against nonprod both ways.
MembershipRules(a, b) ==
    IF a = NilEnv \/ b = NilEnv THEN FALSE
    ELSE IF a = b THEN TRUE
    ELSE IF a = "global" \/ b = "global" THEN TRUE
    ELSE IF \/ (a = "nonprod" /\ b \notin {"prod", "global"})
            \/ (b = "nonprod" /\ a \notin {"prod", "global"}) THEN TRUE
    ELSE FALSE

C5_MembershipTable ==
    probeOp = "BelongsToEnv" =>
        LET a == probe.Environment
            b == probeEnv
        IN  /\ probeRes = MembershipRules(a, b)
            /\ probeRes = BelongsToEnv([probe EXCEPT !.Environment = b], a)
            /\ (a = b /\ a \in EnvNames) => probeRes
            /\ (a \in {"dev", "test", "staging"} /\ b = "nonprod") => probeRes
            /\ (a = "nonprod" /\ b \in {"dev", "test", "staging"}) => probeRes
            /\ ({a, b} = {"prod", "nonprod"}) => ~probeRes

C5_Witness ==
    /\ probeOp = "BelongsToEnv"
    /\ probe.Environment = "nonprod"
    /\ probeEnv = "staging"
    /\ probeRes

\* C6: a secret with no resolvable environment (no dash-separated last segment
\* that names an environment, no Environment tag that names one) is never in
\* the list GetSecrets returns, whatever the target, nil included.
Unresolvable(e) ==
    /\ ~(Len(e.Name) > 1 /\ e.Name[Len(e.Name)] \in EnvNames)
    /\ ~("Environment" \in DOMAIN e.Tags /\ e.Tags["Environment"].v \in EnvNames)

C6_NoEnvNeverReturned ==
    /\ \A e \in srcStore :
         Unresolvable(e) => \A i \in DOMAIN newOrigin : newOrigin[i] # e.Name
    /\ \A e \in dstBefore :
         Unresolvable(e) => \A j \in DOMAIN vOrigin : vOrigin[j] # e.Name

C6_Witness ==
    /\ pc = "dest_listed"
    /\ newSecrets # << >>
    /\ \E e \in srcStore : Unresolvable(e)
    /\ \E e \in dstBefore : Unresolvable(e)

\* C7: GetEnv returns the environment already set if there is one; otherwise
\* the one named by the last dash-separated segment of the name when the name
\* has more than one segment and that segment names an environment; otherwise
\* the one named by the stringified Environment tag; otherwise none.
Precedence(s) ==
    LET n   == s.Name
        tag == IF "Environment" \in DOMAIN s.Tags THEN Sprintf(s.Tags["Environment"]) ELSE ""
    IN  IF s.Environment # NilEnv THEN s.Environment
        ELSE IF Len(n) > 1 /\ n[Len(n)] \in EnvNames THEN n[Len(n)]
        ELSE IF tag \in EnvNames THEN tag
        ELSE NilEnv

C7_ResolutionPrecedence ==
    probeOp = "SetEnv" => probe.Environment = Precedence(probeIn)

C7_Witness ==
    /\ probeOp = "SetEnv"
    /\ probeIn.Environment = NilEnv
    /\ probeIn.Name = <<"db", "prod">>
    /\ probeIn.Tags = [Environment |-> Str("staging")]
    /\ probe.Environment = "prod"

\* C8: for every secret GetSecrets keeps, the returned name is the stored name
\* without one trailing "-" and environment name when the target is not a
\* group (the stored name when it has no such suffix), and the stored name
\* when the target is a group.
TrimOnce(n) ==
    IF Len(n) > 1 /\ n[Len(n)] \in EnvNames THEN SubSeq(n, 1, Len(n) - 1) ELSE n

C8_TrimOnSync ==
    /\ \A i \in DOMAIN newSecrets :
         newSecrets[i].Name = IF SyncEnv \in {"nonprod", "global"}
                              THEN newOrigin[i]
                              ELSE TrimOnce(newOrigin[i])
    /\ \A j \in DOMAIN vSecrets : vSecrets[j].Name = vOrigin[j]

C8_Witness ==
    /\ pc = "source_done"
    /\ SyncEnv = "dev"
    /\ \E i \in DOMAIN newSecrets :
         /\ newOrigin[i] = <<"db", "dev", "dev">>
         /\ newSecrets[i].Name = <<"db", "dev">>
    /\ \E i \in DOMAIN newSecrets : newSecrets[i].Name = newOrigin[i]

\* C9: for every desired secret with no same-named secret in the current
\* destination list, UpdateChangedSecrets issues a data write and a tag write.
NoMatch(i) == \A j \in DOMAIN vSecrets : vSecrets[j].Name # newSecrets[i].Name

C9_CreateRule ==
    pc \in {"updated", "done"} =>
        \A i \in DOMAIN newSecrets : NoMatch(i) => (DataWritten(i) /\ TagsWritten(i))

C9_Witness ==
    /\ pc = "updated"
    /\ vSecrets # << >>
    /\ \E i \in DOMAIN newSecrets : NoMatch(i) /\ DataWritten(i) /\ TagsWritten(i)

\* C10: for every desired secret with a same-named secret in the current
\* destination list, a data write is issued iff the two differ in data and a
\* tag write is issued iff the two differ in tags, each decided on its own;
\* no write when both are equal.  Data and tags are compared as the JSON
\* documents they serialise to.
SameJSON(m1, m2) == MarshalMap(m1) = MarshalMap(m2)

C10_UpdateRule ==
    pc \in {"updated", "done"} =>
        \A i \in DOMAIN newSecrets : \A j \in DOMAIN vSecrets :
            vSecrets[j].Name = newSecrets[i].Name =>
                /\ DataWritten(i) <=> ~SameJSON(newSecrets[i].Data, vSecrets[j].Data)
                /\ TagsWritten(i) <=> ~SameJSON(newSecrets[i].Tags, vSecrets[j].Tags)

C10_Witness ==
    /\ pc = "updated"
    /\ \E i \in DOMAIN newSecrets : \E j \in DOMAIN vSecrets :
         /\ vSecrets[j].Name = newSecrets[i].Name
         /\ newSecrets[i].Data # vSecrets[j].Data
         /\ SameJSON(newSecrets[i].Data, vSecrets[j].Data)
         /\ ~DataWritten(i)
         /\ TagsWritten(i)

\* C11: CleanRemovedSecrets issues a delete for a secret of the current
\* destination list if and only if no desired secret has its name; a secret
\* whose name is in the desired list is never deleted by the run.
Deleted(j) == \E k \in DOMAIN ops : ops[k].op = "delete" /\ ops[k].i = j
                                    /\ ops[k].name = vSecrets[j].Name

C11_DeleteRule ==
    /\ pc = "done" =>
         \A j \in DOMAIN vSecrets :
            Deleted(j) <=> (\A i \in DOMAIN newSecrets : newSecrets[i].Name # vSecrets[j].Name)
    /\ \A k \in DOMAIN ops :
         ops[k].op = "delete" => \A i \in DOMAIN newSecrets : newSecrets[i].Name # ops[k].name

C11_Witness ==
    /\ pc = "done"
    /\ newSecrets # << >>
    /\ \E j \in DOMAIN vSecrets : Deleted(j)

\* C12: a refused data write, tag write or delete does not stop the run: every
\* desired secret after it is still compared and written as needed, every
\* removed secret after it is still deleted, and the run completes.
Requested == [k \in DOMAIN ops |-> [op |-> ops[k].op, i |-> ops[k].i, name |-> ops[k].name]]

C12_PerItemIsolation ==
    (\E k \in DOMAIN ops : ~ops[k].ok) =>
        /\ pc \in {"updated", "done"}
        /\ pc = "updated" =>
             /\ Requested = ChangedPlan(newSecrets, vSecrets, 1)
             /\ ENABLED CleanRemovedSecrets
        /\ pc = "done" =>
             Requested = ChangedPlan(newSecrets, vSecrets, 1)
                         \o RemovedPlan(newSecrets, vSecrets, 1)

C12_Witness ==
    /\ pc = "done"
    /\ \E k, l \in DOMAIN ops :
         /\ k < l
         /\ ops[k].op = "data" /\ ~ops[k].ok
         /\ ops[l].op = "delete" /\ ops[l].ok

\* ----------------------------------------------------- calls of FilterByTags
TagMaps(teams, tiers) ==
    {NoTags}
    \cup {[team |-> a] : a \in teams}
    \cup {[tier |-> b] : b \in tiers}
    \cup {[team |-> a, tier |-> b] : a \in teams, b \in tiers}

FilterNames   == { <<"a">>, <<"b">> }
FilterSecrets == [Name : FilterNames, Data : {NoTags}, Environment : {NilEnv},
                  Tags : TagMaps({Str("payments"), Str("core")}, {Str("1"), Number(1)})]
FilterLists   == UNION {[1..n -> FilterSecrets] : n \in 0..MaxList}
RequiredTags  == TagMaps({Str("payments")}, {Str("1"), Number(1)})

InitFilter ==
    /\ RunIdle
    /\ probe = NoSecret
    /\ probeIn = NoSecret
    /\ probeEnv = NilEnv
    /\ probeRes = FALSE
    /\ probeOp = "New"
    /\ filterSecrets \in FilterLists
    /\ filterTags \in RequiredTags
    /\ filterOut = << >>
    /\ calls = << >>

\* secret.FilterByTags(secrets, tags)
CallFilterByTags ==
    /\ probeOp = "New"
    /\ probeRes' = FilterByTags(filterSecrets, filterTags)[1]
    /\ filterOut' = FilterByTags(filterSecrets, filterTags)[2]
    /\ probeOp' = "FilterByTags"
    /\ UNCHANGED <<probe, probeIn, probeEnv, filterSecrets, filterTags, calls>>
    /\ UNCHANGED runVars

NextFilter == CallFilterByTags

SpecFilter == InitFilter /\ [][NextFilter]_vars

\* C13: FilterByTags with non-empty tags returns true and, in input order,
\* exactly the secrets whose tags hold every given key with the same value;
\* with empty tags it returns false and the input list.
HoldsEvery(s) ==
    \A key \in DOMAIN filterTags :
        /\ key \in DOMAIN s.Tags
        /\ s.Tags[key].t = filterTags[key].t
        /\ s.Tags[key].v = filterTags[key].v

C14_FullCurrentList ==
    pc \in {"dest_listed", "updated", "done"} =>
        \A e \in dstBefore : \E j \in DOMAIN vSecrets : vOrigin[j] = e.Name

\* C15: a secret whose data write, tag write or delete was refused is not
\* counted among the created/updated or removed secrets the run reports, and
\* is not reported as successfully written.
Refused(k) == ~ops[k].ok

C15_FailuresCounted ==
    pc = "done" =>
        /\ \A k \in logged.put : ~Refused(k)
        /\ logged.updated =
             Cardinality({ops[k].i : k \in {l \in DOMAIN ops : ops[l].op # "delete"}}
                         \ {ops[k].i : k \in {l \in DOMAIN ops : ops[l].op # "delete"
                                                                  /\ Refused(l)}})
        /\ logged.removed =
             Cardinality({k \in DOMAIN ops : ops[k].op = "delete" /\ ~Refused(k)})

\* C16: within a run UpdateSecrets reads the destination's list before any
\* request is issued, issues every create/update write next, and issues the
\* first delete only after the last write: no delete precedes a write.
IsWrite(k)  == ops[k].op # "delete"
IsDelete(k) == ops[k].op = "delete"

C16_WritesBeforeDeletes ==
    /\ pc \in {"main", "source_done"} => ops = << >>
    /\ \A k \in DOMAIN ops : \A l \in DOMAIN ops : (IsWrite(k) /\ IsDelete(l)) => k < l

C16_Witness ==
    /\ pc = "done"
    /\ \E k \in DOMAIN ops : IsWrite(k)
    /\ \E l \in DOMAIN ops : IsDelete(l)

\* C17: names are a key of the scoped list: the stored names of the source
\* being pairwise distinct, no two secrets of the list GetSecrets returned
\* have the same name after the suffix trim.
StoredNamesDistinct == \A e \in srcStore : \A f \in srcStore : e.Name = f.Name => e = f

C17_NamesAreKey ==
    (pc \notin {"main", "exit", "panic"} /\ StoredNamesDistinct) =>
        \A i \in DOMAIN newSecrets : \A j \in DOMAIN newSecrets :
            newSecrets[i].Name = newSecrets[j].Name => i = j

\* ------------------------------------------ one Vault adapter, many calls
\* vault.New gives an adapter with no Secrets; GetSecrets(env) is then called
\* on it any number of times over a store that does not change.  The store of
\* the adapter is srcStore, its Secrets field is vSecrets.
InitAdapter ==
    /\ srcStore \in Stores(SrcNames, MaxSrc)
    /\ dstStore = {}
    /\ SyncEnv = "global"
    /\ system = SystemVault
    /\ pc = "adapter"
    /\ newSecrets = << >>
    /\ newOrigin = << >>
    /\ vSecrets = << >>
    /\ vOrigin = << >>
    /\ ops = << >>
    /\ faults = {}
    /\ dstBefore = {}
    /\ prevClean = FALSE
    /\ logged = NothingLogged
    /\ ProbeIdle

\* v.GetSecrets(env): a failed listing is fatal, a failed read panics,
\* otherwise the secrets found are appended to v.Secrets, and v.Secrets is
\* what the call returns (newSecrets)
CallGetSecrets ==
    /\ pc = "adapter"
    /\ Len(calls) < MaxCalls
    /\ \E env \in EnvPtrs :
         /\ calls' = Append(calls, env)
         /\ \/ /\ Fatal("srcList")
               /\ UNCHANGED <<vSecrets, vOrigin, newSecrets, newOrigin>>
            \/ /\ srcStore # {}
               /\ Panic("srcRead")
               /\ UNCHANGED <<vSecrets, vOrigin, newSecrets, newOrigin>>
            \/ LET found == GetSecrets(SystemVault, List(srcStore), env)
               IN  /\ vSecrets' = vSecrets \o SecretsOf(found)
                   /\ vOrigin' = vOrigin \o OriginsOf(found)
                   /\ newSecrets' = vSecrets'
                   /\ newOrigin' = vOrigin'
                   /\ UNCHANGED <<pc, faults>>
    /\ UNCHANGED <<srcStore, dstStore, SyncEnv, system, ops, dstBefore, prevClean, logged>>
    /\ UNCHANGED <<probe, probeIn, probeEnv, probeRes, probeOp,
                   filterSecrets, filterTags, filterOut>>

NextAdapter == CallGetSecrets

SpecAdapter == InitAdapter /\ [][NextAdapter]_vars

\* C18: whatever GetSecrets calls were made before on the adapter, a call
\* returns every stored secret that belongs to its target exactly once and
\* no secret that does not belong to it.
BelongsToTarget(e, env) ==
    BelongsToEnv(SetEnv(VaultGetSecret(e)), IF env = NilEnv THEN "global" ELSE env)

TimesReturned(name) == Cardinality({i \in DOMAIN newOrigin : newOrigin[i] = name})

C18_CallsIndependent ==
    (pc = "adapter" /\ calls # << >>) =>
        \A e \in srcStore :
            TimesReturned(e.Name) = IF BelongsToTarget(e, calls[Len(calls)]) THEN 1 ELSE 0
====
